---- MODULE Spec2Model ----
(***************************************************************************)
(* Model of scripts/doc_coverage.py: the documentation coverage scanner.   *)
(* A text (a Python str: a source text, a name, a path component, the      *)
(* corpus) is the sequence of its code points, and the content of a file   *)
(* is the sequence of its bytes.  The regular expressions of the scanner   *)
(* are modelled by matchers over text positions (1-based), each following  *)
(* the pattern of the source element by element.                           *)
(***************************************************************************)
EXTENDS Integers, Sequences, FiniteSets, TLC

VARIABLES
    pc,              \* position of the run; the exception's name once one has ended it
    text,            \* main: text (line 97); argument of extract_symbols
    globals_set,     \* extract_symbols: globals_set (line 32)
    functions_set,   \* extract_symbols: functions_set (line 33)
    doc_root,        \* the documentation root: whether it exists, its *.md entries
    doc_text,        \* main: doc_text (line 92); the corpus
    name,            \* is_documented: name
    documented,      \* is_documented: its result
    names,           \* compute_coverage: names
    tally,           \* compute_coverage: its result <<documented, total>>
    code_root,       \* the code root: whether it exists, its files and their texts
    stack,           \* os.walk: the directories still to be listed, next first
    root,            \* collect_source_files: root (line 23)
    files,           \* collect_source_files: the entries of files not yet reached
    visited,         \* the directories os.walk has listed so far, in order
    modules,         \* main: modules (line 88)
    globals_names,   \* main: globals_names (line 89)
    functions_names, \* main: functions_names (line 90)
    report           \* main: the three tallies and coverage_pct (lines 102-108)

vars == <<pc, text, globals_set, functions_set, doc_root, doc_text,
          name, documented, names, tally, code_root, stack, root, files,
          visited, modules, globals_names, functions_names, report>>

extractVars == <<text, globals_set, functions_set>>
docVars == <<doc_root, doc_text>>
queryVars == <<name, documented>>
coverageVars == <<names, tally>>
walkVars == <<stack, root, files, visited>>
mainVars == <<code_root, walkVars, modules, globals_names, functions_names, report>>

(***************************************************************************)
(* Texts.  Str("...") is the text of an ASCII string literal; ord gives    *)
(* the code point of a character, as Python's ord does.                    *)
(***************************************************************************)
Printable == " !\"#$%&'()*+,-./0123456789:;<=>?@ABCDEFGHIJKLMNOPQRSTUVWXYZ[\\]^_"
PrintableLower == "abcdefghijklmnopqrstuvwxyz{|}~"

ord ==
    ("\t" :> 9) @@ ("\n" :> 10) @@ ("\f" :> 12) @@ ("\r" :> 13)
    @@ [c \in { SubSeq(Printable, i, i) : i \in 1..Len(Printable) } |->
            31 + (CHOOSE i \in 1..Len(Printable) : SubSeq(Printable, i, i) = c)]
    @@ [c \in { SubSeq(PrintableLower, i, i) : i \in 1..Len(PrintableLower) } |->
            96 + (CHOOSE i \in 1..Len(PrintableLower) : SubSeq(PrintableLower, i, i) = c)]

Str(s) == [i \in 1..Len(s) |-> ord[SubSeq(s, i, i)]]

Ch(t, i) == t[i]

(***************************************************************************)
(* Character classes of Python's re module for str patterns (Unicode       *)
(* matching, no re.ASCII flag).                                            *)
(***************************************************************************)
Lower == 97..122
Upper == 65..90
Digit == 48..57

\* [A-Za-z_]
IdentStart == Lower \cup Upper \cup {ord["_"]}

\* the ranges of the code points from 128 up for which str.isalnum() holds
\* (Unicode 14.0, the database of Python 3.11)
WordRanges ==
    << <<170, 170>>, <<178, 179>>, <<181, 181>>, <<185, 186>>, <<188, 190>>,
       <<192, 214>>, <<216, 246>>, <<248, 705>>, <<710, 721>>, <<736, 740>>,
       <<748, 748>>, <<750, 750>>, <<880, 884>>, <<886, 887>>, <<890, 893>>,
       <<895, 895>>, <<902, 902>>, <<904, 906>>, <<908, 908>>, <<910, 929>>,
       <<931, 1013>>, <<1015, 1153>>, <<1162, 1327>>, <<1329, 1366>>,
       <<1369, 1369>>, <<1376, 1416>>, <<1488, 1514>>, <<1519, 1522>>,
       <<1568, 1610>>, <<1632, 1641>>, <<1646, 1647>>, <<1649, 1747>>,
       <<1749, 1749>>, <<1765, 1766>>, <<1774, 1788>>, <<1791, 1791>>,
       <<1808, 1808>>, <<1810, 1839>>, <<1869, 1957>>, <<1969, 1969>>,
       <<1984, 2026>>, <<2036, 2037>>, <<2042, 2042>>, <<2048, 2069>>,
       <<2074, 2074>>, <<2084, 2084>>, <<2088, 2088>>, <<2112, 2136>>,
       <<2144, 2154>>, <<2160, 2183>>, <<2185, 2190>>, <<2208, 2249>>,
       <<2308, 2361>>, <<2365, 2365>>, <<2384, 2384>>, <<2392, 2401>>,
       <<2406, 2415>>, <<2417, 2432>>, <<2437, 2444>>, <<2447, 2448>>,
       <<2451, 2472>>, <<2474, 2480>>, <<2482, 2482>>, <<2486, 2489>>,
       <<2493, 2493>>, <<2510, 2510>>, <<2524, 2525>>, <<2527, 2529>>,
       <<2534, 2545>>, <<2548, 2553>>, <<2556, 2556>>, <<2565, 2570>>,
       <<2575, 2576>>, <<2579, 2600>>, <<2602, 2608>>, <<2610, 2611>>,
       <<2613, 2614>>, <<2616, 2617>>, <<2649, 2652>>, <<2654, 2654>>,
       <<2662, 2671>>, <<2674, 2676>>, <<2693, 2701>>, <<2703, 2705>>,
       <<2707, 2728>>, <<2730, 2736>>, <<2738, 2739>>, <<2741, 2745>>,
       <<2749, 2749>>, <<2768, 2768>>, <<2784, 2785>>, <<2790, 2799>>,
       <<2809, 2809>>, <<2821, 2828>>, <<2831, 2832>>, <<2835, 2856>>,
       <<2858, 2864>>, <<2866, 2867>>, <<2869, 2873>>, <<2877, 2877>>,
       <<2908, 2909>>, <<2911, 2913>>, <<2918, 2927>>, <<2929, 2935>>,
       <<2947, 2947>>, <<2949, 2954>>, <<2958, 2960>>, <<2962, 2965>>,
       <<2969, 2970>>, <<2972, 2972>>, <<2974, 2975>>, <<2979, 2980>>,
       <<2984, 2986>>, <<2990, 3001>>, <<3024, 3024>>, <<3046, 3058>>,
       <<3077, 3084>>, <<3086, 3088>>, <<3090, 3112>>, <<3114, 3129>>,
       <<3133, 3133>>, <<3160, 3162>>, <<3165, 3165>>, <<3168, 3169>>,
       <<3174, 3183>>, <<3192, 3198>>, <<3200, 3200>>, <<3205, 3212>>,
       <<3214, 3216>>, <<3218, 3240>>, <<3242, 3251>>, <<3253, 3257>>,
       <<3261, 3261>>, <<3293, 3294>>, <<3296, 3297>>, <<3302, 3311>>,
       <<3313, 3314>>, <<3332, 3340>>, <<3342, 3344>>, <<3346, 3386>>,
       <<3389, 3389>>, <<3406, 3406>>, <<3412, 3414>>, <<3416, 3425>>,
       <<3430, 3448>>, <<3450, 3455>>, <<3461, 3478>>, <<3482, 3505>>,
       <<3507, 3515>>, <<3517, 3517>>, <<3520, 3526>>, <<3558, 3567>>,
       <<3585, 3632>>, <<3634, 3635>>, <<3648, 3654>>, <<3664, 3673>>,
       <<3713, 3714>>, <<3716, 3716>>, <<3718, 3722>>, <<3724, 3747>>,
       <<3749, 3749>>, <<3751, 3760>>, <<3762, 3763>>, <<3773, 3773>>,
       <<3776, 3780>>, <<3782, 3782>>, <<3792, 3801>>, <<3804, 3807>>,
       <<3840, 3840>>, <<3872, 3891>>, <<3904, 3911>>, <<3913, 3948>>,
       <<3976, 3980>>, <<4096, 4138>>, <<4159, 4169>>, <<4176, 4181>>,
       <<4186, 4189>>, <<4193, 4193>>, <<4197, 4198>>, <<4206, 4208>>,
       <<4213, 4225>>, <<4238, 4238>>, <<4240, 4249>>, <<4256, 4293>>,
       <<4295, 4295>>, <<4301, 4301>>, <<4304, 4346>>, <<4348, 4680>>,
       <<4682, 4685>>, <<4688, 4694>>, <<4696, 4696>>, <<4698, 4701>>,
       <<4704, 4744>>, <<4746, 4749>>, <<4752, 4784>>, <<4786, 4789>>,
       <<4792, 4798>>, <<4800, 4800>>, <<4802, 4805>>, <<4808, 4822>>,
       <<4824, 4880>>, <<4882, 4885>>, <<4888, 4954>>, <<4969, 4988>>,
       <<4992, 5007>>, <<5024, 5109>>, <<5112, 5117>>, <<5121, 5740>>,
       <<5743, 5759>>, <<5761, 5786>>, <<5792, 5866>>, <<5870, 5880>>,
       <<5888, 5905>>, <<5919, 5937>>, <<5952, 5969>>, <<5984, 5996>>,
       <<5998, 6000>>, <<6016, 6067>>, <<6103, 6103>>, <<6108, 6108>>,
       <<6112, 6121>>, <<6128, 6137>>, <<6160, 6169>>, <<6176, 6264>>,
       <<6272, 6276>>, <<6279, 6312>>, <<6314, 6314>>, <<6320, 6389>>,
       <<6400, 6430>>, <<6470, 6509>>, <<6512, 6516>>, <<6528, 6571>>,
       <<6576, 6601>>, <<6608, 6618>>, <<6656, 6678>>, <<6688, 6740>>,
       <<6784, 6793>>, <<6800, 6809>>, <<6823, 6823>>, <<6917, 6963>>,
       <<6981, 6988>>, <<6992, 7001>>, <<7043, 7072>>, <<7086, 7141>>,
       <<7168, 7203>>, <<7232, 7241>>, <<7245, 7293>>, <<7296, 7304>>,
       <<7312, 7354>>, <<7357, 7359>>, <<7401, 7404>>, <<7406, 7411>>,
       <<7413, 7414>>, <<7418, 7418>>, <<7424, 7615>>, <<7680, 7957>>,
       <<7960, 7965>>, <<7968, 8005>>, <<8008, 8013>>, <<8016, 8023>>,
       <<8025, 8025>>, <<8027, 8027>>, <<8029, 8029>>, <<8031, 8061>>,
       <<8064, 8116>>, <<8118, 8124>>, <<8126, 8126>>, <<8130, 8132>>,
       <<8134, 8140>>, <<8144, 8147>>, <<8150, 8155>>, <<8160, 8172>>,
       <<8178, 8180>>, <<8182, 8188>>, <<8304, 8305>>, <<8308, 8313>>,
       <<8319, 8329>>, <<8336, 8348>>, <<8450, 8450>>, <<8455, 8455>>,
       <<8458, 8467>>, <<8469, 8469>>, <<8473, 8477>>, <<8484, 8484>>,
       <<8486, 8486>>, <<8488, 8488>>, <<8490, 8493>>, <<8495, 8505>>,
       <<8508, 8511>>, <<8517, 8521>>, <<8526, 8526>>, <<8528, 8585>>,
       <<9312, 9371>>, <<9450, 9471>>, <<10102, 10131>>, <<11264, 11492>>,
       <<11499, 11502>>, <<11506, 11507>>, <<11517, 11517>>,
       <<11520, 11557>>, <<11559, 11559>>, <<11565, 11565>>,
       <<11568, 11623>>, <<11631, 11631>>, <<11648, 11670>>,
       <<11680, 11686>>, <<11688, 11694>>, <<11696, 11702>>,
       <<11704, 11710>>, <<11712, 11718>>, <<11720, 11726>>,
       <<11728, 11734>>, <<11736, 11742>>, <<11823, 11823>>,
       <<12293, 12295>>, <<12321, 12329>>, <<12337, 12341>>,
       <<12344, 12348>>, <<12353, 12438>>, <<12445, 12447>>,
       <<12449, 12538>>, <<12540, 12543>>, <<12549, 12591>>,
       <<12593, 12686>>, <<12690, 12693>>, <<12704, 12735>>,
       <<12784, 12799>>, <<12832, 12841>>, <<12872, 12879>>,
       <<12881, 12895>>, <<12928, 12937>>, <<12977, 12991>>,
       <<13312, 19903>>, <<19968, 42124>>, <<42192, 42237>>,
       <<42240, 42508>>, <<42512, 42539>>, <<42560, 42606>>,
       <<42623, 42653>>, <<42656, 42735>>, <<42775, 42783>>,
       <<42786, 42888>>, <<42891, 42954>>, <<42960, 42961>>,
       <<42963, 42963>>, <<42965, 42969>>, <<42994, 43009>>,
       <<43011, 43013>>, <<43015, 43018>>, <<43020, 43042>>,
       <<43056, 43061>>, <<43072, 43123>>, <<43138, 43187>>,
       <<43216, 43225>>, <<43250, 43255>>, <<43259, 43259>>,
       <<43261, 43262>>, <<43264, 43301>>, <<43312, 43334>>,
       <<43360, 43388>>, <<43396, 43442>>, <<43471, 43481>>,
       <<43488, 43492>>, <<43494, 43518>>, <<43520, 43560>>,
       <<43584, 43586>>, <<43588, 43595>>, <<43600, 43609>>,
       <<43616, 43638>>, <<43642, 43642>>, <<43646, 43695>>,
       <<43697, 43697>>, <<43701, 43702>>, <<43705, 43709>>,
       <<43712, 43712>>, <<43714, 43714>>, <<43739, 43741>>,
       <<43744, 43754>>, <<43762, 43764>>, <<43777, 43782>>,
       <<43785, 43790>>, <<43793, 43798>>, <<43808, 43814>>,
       <<43816, 43822>>, <<43824, 43866>>, <<43868, 43881>>,
       <<43888, 44002>>, <<44016, 44025>>, <<44032, 55203>>,
       <<55216, 55238>>, <<55243, 55291>>, <<63744, 64109>>,
       <<64112, 64217>>, <<64256, 64262>>, <<64275, 64279>>,
       <<64285, 64285>>, <<64287, 64296>>, <<64298, 64310>>,
       <<64312, 64316>>, <<64318, 64318>>, <<64320, 64321>>,
       <<64323, 64324>>, <<64326, 64433>>, <<64467, 64829>>,
       <<64848, 64911>>, <<64914, 64967>>, <<65008, 65019>>,
       <<65136, 65140>>, <<65142, 65276>>, <<65296, 65305>>,
       <<65313, 65338>>, <<65345, 65370>>, <<65382, 65470>>,
       <<65474, 65479>>, <<65482, 65487>>, <<65490, 65495>>,
       <<65498, 65500>>, <<65536, 65547>>, <<65549, 65574>>,
       <<65576, 65594>>, <<65596, 65597>>, <<65599, 65613>>,
       <<65616, 65629>>, <<65664, 65786>>, <<65799, 65843>>,
       <<65856, 65912>>, <<65930, 65931>>, <<66176, 66204>>,
       <<66208, 66256>>, <<66273, 66299>>, <<66304, 66339>>,
       <<66349, 66378>>, <<66384, 66421>>, <<66432, 66461>>,
       <<66464, 66499>>, <<66504, 66511>>, <<66513, 66517>>,
       <<66560, 66717>>, <<66720, 66729>>, <<66736, 66771>>,
       <<66776, 66811>>, <<66816, 66855>>, <<66864, 66915>>,
       <<66928, 66938>>, <<66940, 66954>>, <<66956, 66962>>,
       <<66964, 66965>>, <<66967, 66977>>, <<66979, 66993>>,
       <<66995, 67001>>, <<67003, 67004>>, <<67072, 67382>>,
       <<67392, 67413>>, <<67424, 67431>>, <<67456, 67461>>,
       <<67463, 67504>>, <<67506, 67514>>, <<67584, 67589>>,
       <<67592, 67592>>, <<67594, 67637>>, <<67639, 67640>>,
       <<67644, 67644>>, <<67647, 67669>>, <<67672, 67702>>,
       <<67705, 67742>>, <<67751, 67759>>, <<67808, 67826>>,
       <<67828, 67829>>, <<67835, 67867>>, <<67872, 67897>>,
       <<67968, 68023>>, <<68028, 68047>>, <<68050, 68096>>,
       <<68112, 68115>>, <<68117, 68119>>, <<68121, 68149>>,
       <<68160, 68168>>, <<68192, 68222>>, <<68224, 68255>>,
       <<68288, 68295>>, <<68297, 68324>>, <<68331, 68335>>,
       <<68352, 68405>>, <<68416, 68437>>, <<68440, 68466>>,
       <<68472, 68497>>, <<68521, 68527>>, <<68608, 68680>>,
       <<68736, 68786>>, <<68800, 68850>>, <<68858, 68899>>,
       <<68912, 68921>>, <<69216, 69246>>, <<69248, 69289>>,
       <<69296, 69297>>, <<69376, 69415>>, <<69424, 69445>>,
       <<69457, 69460>>, <<69488, 69505>>, <<69552, 69579>>,
       <<69600, 69622>>, <<69635, 69687>>, <<69714, 69743>>,
       <<69745, 69746>>, <<69749, 69749>>, <<69763, 69807>>,
       <<69840, 69864>>, <<69872, 69881>>, <<69891, 69926>>,
       <<69942, 69951>>, <<69956, 69956>>, <<69959, 69959>>,
       <<69968, 70002>>, <<70006, 70006>>, <<70019, 70066>>,
       <<70081, 70084>>, <<70096, 70106>>, <<70108, 70108>>,
       <<70113, 70132>>, <<70144, 70161>>, <<70163, 70187>>,
       <<70272, 70278>>, <<70280, 70280>>, <<70282, 70285>>,
       <<70287, 70301>>, <<70303, 70312>>, <<70320, 70366>>,
       <<70384, 70393>>, <<70405, 70412>>, <<70415, 70416>>,
       <<70419, 70440>>, <<70442, 70448>>, <<70450, 70451>>,
       <<70453, 70457>>, <<70461, 70461>>, <<70480, 70480>>,
       <<70493, 70497>>, <<70656, 70708>>, <<70727, 70730>>,
       <<70736, 70745>>, <<70751, 70753>>, <<70784, 70831>>,
       <<70852, 70853>>, <<70855, 70855>>, <<70864, 70873>>,
       <<71040, 71086>>, <<71128, 71131>>, <<71168, 71215>>,
       <<71236, 71236>>, <<71248, 71257>>, <<71296, 71338>>,
       <<71352, 71352>>, <<71360, 71369>>, <<71424, 71450>>,
       <<71472, 71483>>, <<71488, 71494>>, <<71680, 71723>>,
       <<71840, 71922>>, <<71935, 71942>>, <<71945, 71945>>,
       <<71948, 71955>>, <<71957, 71958>>, <<71960, 71983>>,
       <<71999, 71999>>, <<72001, 72001>>, <<72016, 72025>>,
       <<72096, 72103>>, <<72106, 72144>>, <<72161, 72161>>,
       <<72163, 72163>>, <<72192, 72192>>, <<72203, 72242>>,
       <<72250, 72250>>, <<72272, 72272>>, <<72284, 72329>>,
       <<72349, 72349>>, <<72368, 72440>>, <<72704, 72712>>,
       <<72714, 72750>>, <<72768, 72768>>, <<72784, 72812>>,
       <<72818, 72847>>, <<72960, 72966>>, <<72968, 72969>>,
       <<72971, 73008>>, <<73030, 73030>>, <<73040, 73049>>,
       <<73056, 73061>>, <<73063, 73064>>, <<73066, 73097>>,
       <<73112, 73112>>, <<73120, 73129>>, <<73440, 73458>>,
       <<73648, 73648>>, <<73664, 73684>>, <<73728, 74649>>,
       <<74752, 74862>>, <<74880, 75075>>, <<77712, 77808>>,
       <<77824, 78894>>, <<82944, 83526>>, <<92160, 92728>>,
       <<92736, 92766>>, <<92768, 92777>>, <<92784, 92862>>,
       <<92864, 92873>>, <<92880, 92909>>, <<92928, 92975>>,
       <<92992, 92995>>, <<93008, 93017>>, <<93019, 93025>>,
       <<93027, 93047>>, <<93053, 93071>>, <<93760, 93846>>,
       <<93952, 94026>>, <<94032, 94032>>, <<94099, 94111>>,
       <<94176, 94177>>, <<94179, 94179>>, <<94208, 100343>>,
       <<100352, 101589>>, <<101632, 101640>>, <<110576, 110579>>,
       <<110581, 110587>>, <<110589, 110590>>, <<110592, 110882>>,
       <<110928, 110930>>, <<110948, 110951>>, <<110960, 111355>>,
       <<113664, 113770>>, <<113776, 113788>>, <<113792, 113800>>,
       <<113808, 113817>>, <<119520, 119539>>, <<119648, 119672>>,
       <<119808, 119892>>, <<119894, 119964>>, <<119966, 119967>>,
       <<119970, 119970>>, <<119973, 119974>>, <<119977, 119980>>,
       <<119982, 119993>>, <<119995, 119995>>, <<119997, 120003>>,
       <<120005, 120069>>, <<120071, 120074>>, <<120077, 120084>>,
       <<120086, 120092>>, <<120094, 120121>>, <<120123, 120126>>,
       <<120128, 120132>>, <<120134, 120134>>, <<120138, 120144>>,
       <<120146, 120485>>, <<120488, 120512>>, <<120514, 120538>>,
       <<120540, 120570>>, <<120572, 120596>>, <<120598, 120628>>,
       <<120630, 120654>>, <<120656, 120686>>, <<120688, 120712>>,
       <<120714, 120744>>, <<120746, 120770>>, <<120772, 120779>>,
       <<120782, 120831>>, <<122624, 122654>>, <<123136, 123180>>,
       <<123191, 123197>>, <<123200, 123209>>, <<123214, 123214>>,
       <<123536, 123565>>, <<123584, 123627>>, <<123632, 123641>>,
       <<124896, 124902>>, <<124904, 124907>>, <<124909, 124910>>,
       <<124912, 124926>>, <<124928, 125124>>, <<125127, 125135>>,
       <<125184, 125251>>, <<125259, 125259>>, <<125264, 125273>>,
       <<126065, 126123>>, <<126125, 126127>>, <<126129, 126132>>,
       <<126209, 126253>>, <<126255, 126269>>, <<126464, 126467>>,
       <<126469, 126495>>, <<126497, 126498>>, <<126500, 126500>>,
       <<126503, 126503>>, <<126505, 126514>>, <<126516, 126519>>,
       <<126521, 126521>>, <<126523, 126523>>, <<126530, 126530>>,
       <<126535, 126535>>, <<126537, 126537>>, <<126539, 126539>>,
       <<126541, 126543>>, <<126545, 126546>>, <<126548, 126548>>,
       <<126551, 126551>>, <<126553, 126553>>, <<126555, 126555>>,
       <<126557, 126557>>, <<126559, 126559>>, <<126561, 126562>>,
       <<126564, 126564>>, <<126567, 126570>>, <<126572, 126578>>,
       <<126580, 126583>>, <<126585, 126588>>, <<126590, 126590>>,
       <<126592, 126601>>, <<126603, 126619>>, <<126625, 126627>>,
       <<126629, 126633>>, <<126635, 126651>>, <<127232, 127244>>,
       <<130032, 130041>>, <<131072, 173791>>, <<173824, 177976>>,
       <<177984, 178205>>, <<178208, 183969>>, <<183984, 191456>>,
       <<194560, 195101>>, <<196608, 201546>> >>

\* \w: [a-zA-Z0-9_] and every other code point that is alphanumeric
WordChars(c) ==
    IF c < 128 THEN c \in IdentStart \cup Digit
    ELSE \E k \in 1..Len(WordRanges) : WordRanges[k][1] <= c /\ c <= WordRanges[k][2]

\* \s: the code points for which str.isspace() holds
Space ==
    (9..13) \cup (28..32) \cup {133, 160, 5760} \cup (8192..8202)
        \cup {8232, 8233, 8239, 8287, 12288}

\* the position after the longest run of characters of S that starts at i
RECURSIVE SpanEnd(_, _, _)
SpanEnd(t, i, S) ==
    IF i <= Len(t) /\ Ch(t, i) \in S THEN SpanEnd(t, i + 1, S) ELSE i

\* for a text t: which of its positions hold a character of \w
WordMask(t) == [i \in 1..Len(t) |-> WordChars(Ch(t, i))]

\* \w* at position i of the text t, whose \w positions are w: the position
\* after it
RECURSIVE WordEnd(_, _, _)
WordEnd(t, w, i) ==
    IF i <= Len(t) /\ w[i] THEN WordEnd(t, w, i + 1) ELSE i

\* the position of the first occurrence of character c at or after i
\* (Len(t) + 1 when there is none): where [^c]* must stop
RECURSIVE FirstOf(_, _, _)
FirstOf(t, i, c) ==
    IF i <= Len(t) /\ Ch(t, i) # c THEN FirstOf(t, i + 1, c) ELSE i

\* a literal at position i
LitAt(t, i, lit) ==
    /\ i >= 1
    /\ i + Len(lit) - 1 <= Len(t)
    /\ SubSeq(t, i, i + Len(lit) - 1) = lit

\* \b between positions i-1 and i
WordBoundary(t, w, i) ==
    LET before == i > 1 /\ i - 1 <= Len(t) /\ w[i - 1]
        after  == i >= 1 /\ i <= Len(t) /\ w[i]
    IN  before # after

\* ^ under re.MULTILINE
LineStart(t, i) == i = 1 \/ (i > 1 /\ Ch(t, i - 1) = ord["\n"])

\* [A-Za-z_]\w* at position i: the position after it, 0 when it does not match
IdentEnd(t, w, i) ==
    IF i >= 1 /\ i <= Len(t) /\ Ch(t, i) \in IdentStart
    THEN WordEnd(t, w, i + 1)
    ELSE 0

\* the literals of the patterns
ConstKw == Str("const")
LetKw == Str("let")
VarKw == Str("var")
FunctionKw == Str("function")
AsyncKw == Str("async")
ArrowOp == Str("=>")
OpenParen == Str("(")
EmptyParens == Str("()")
EqualsSign == Str("=")
ColonSign == Str(":")

NoMatch == [end |-> 0, name |-> << >>]

\* MatchGlobal without re.MULTILINE: ^ matches at the start of the text only
MatchGlobal_FirstLineOnly(t, w, i) ==
    LET kw == IF LitAt(t, i, ConstKw) THEN Len(ConstKw)
              ELSE IF LitAt(t, i, LetKw) THEN Len(LetKw)
              ELSE IF LitAt(t, i, VarKw) THEN Len(VarKw)
              ELSE 0
        s == i + kw
        a == SpanEnd(t, s, Space)
        e == IdentEnd(t, w, a)
    IN  IF i = 1 /\ kw > 0 /\ a > s /\ e > 0
        THEN [end |-> e, name |-> SubSeq(t, a, e - 1)]
        ELSE NoMatch

\* ^(?:const|let|var)\s+([A-Za-z_]\w*)
MatchGlobal(t, w, i) ==
    LET kw == IF LitAt(t, i, ConstKw) THEN Len(ConstKw)
              ELSE IF LitAt(t, i, LetKw) THEN Len(LetKw)
              ELSE IF LitAt(t, i, VarKw) THEN Len(VarKw)
              ELSE 0
        s == i + kw
        a == SpanEnd(t, s, Space)
        e == IdentEnd(t, w, a)
    IN  IF LineStart(t, i) /\ kw > 0 /\ a > s /\ e > 0
        THEN [end |-> e, name |-> SubSeq(t, a, e - 1)]
        ELSE NoMatch

\* \bfunction\s+([A-Za-z_]\w*)\s*\(
MatchDeclaration(t, w, i) ==
    LET s == i + Len(FunctionKw)
        a == SpanEnd(t, s, Space)
        e == IdentEnd(t, w, a)
        b == SpanEnd(t, e, Space)
    IN  IF /\ WordBoundary(t, w, i)
           /\ LitAt(t, i, FunctionKw)
           /\ a > s
           /\ e > 0
           /\ LitAt(t, b, OpenParen)
        THEN [end |-> b + 1, name |-> SubSeq(t, a, e - 1)]
        ELSE NoMatch

\* \b([A-Za-z_]\w*)\s*<sep>\s*   for sep = or :: the position after it,
\* 0 when it does not match
AssignHead(t, w, i, sep) ==
    LET e == IdentEnd(t, w, i)
        a == SpanEnd(t, e, Space)
    IN  IF WordBoundary(t, w, i) /\ e > 0 /\ LitAt(t, a, sep)
        THEN SpanEnd(t, a + 1, Space)
        ELSE 0

\* \([^)]*\)\s*=>  at position p: the position after it, 0 when no match
ArrowTail(t, p) ==
    LET c == FirstOf(t, p + 1, ord[")"])
        a == SpanEnd(t, c + 1, Space)
    IN  IF LitAt(t, p, OpenParen) /\ c <= Len(t) /\ LitAt(t, a, ArrowOp)
        THEN a + Len(ArrowOp)
        ELSE 0

\* \b([A-Za-z_]\w*)\s*=\s*function\b
MatchFunctionExpr(t, w, i) ==
    LET b == AssignHead(t, w, i, EqualsSign)
        f == b + Len(FunctionKw)
    IN  IF b > 0 /\ LitAt(t, b, FunctionKw) /\ WordBoundary(t, w, f)
        THEN [end |-> f, name |-> SubSeq(t, i, IdentEnd(t, w, i) - 1)]
        ELSE NoMatch

\* \b([A-Za-z_]\w*)\s*=\s*async\s*\(
MatchAsyncAssign(t, w, i) ==
    LET b == AssignHead(t, w, i, EqualsSign)
        a == SpanEnd(t, b + Len(AsyncKw), Space)
    IN  IF b > 0 /\ LitAt(t, b, AsyncKw) /\ LitAt(t, a, OpenParen)
        THEN [end |-> a + 1, name |-> SubSeq(t, i, IdentEnd(t, w, i) - 1)]
        ELSE NoMatch

\* MatchArrowAssign with [^)]+ for [^)]*: an empty parameter list is missed
MatchArrowAssign_NonEmptyParams(t, w, i) ==
    LET b == AssignHead(t, w, i, EqualsSign)
        e == ArrowTail(t, b)
    IN  IF b > 0 /\ e > 0 /\ ~LitAt(t, b, EmptyParens)
        THEN [end |-> e, name |-> SubSeq(t, i, IdentEnd(t, w, i) - 1)]
        ELSE NoMatch

\* \b([A-Za-z_]\w*)\s*=\s*\([^)]*\)\s*=>
MatchArrowAssign(t, w, i) ==
    LET b == AssignHead(t, w, i, EqualsSign)
        e == ArrowTail(t, b)
    IN  IF b > 0 /\ e > 0
        THEN [end |-> e, name |-> SubSeq(t, i, IdentEnd(t, w, i) - 1)]
        ELSE NoMatch

\* \b([A-Za-z_]\w*)\s*:\s*(?:async\s*)?\([^)]*\)\s*=>
MatchMethod(t, w, i) ==
    LET b == AssignHead(t, w, i, ColonSign)
        p == IF b > 0 /\ LitAt(t, b, AsyncKw)
             THEN SpanEnd(t, b + Len(AsyncKw), Space)
             ELSE b
        e == ArrowTail(t, p)
    IN  IF b > 0 /\ e > 0
        THEN [end |-> e, name |-> SubSeq(t, i, IdentEnd(t, w, i) - 1)]
        ELSE NoMatch

\* the patterns list of extract_symbols, in its order
NumPatterns == 5

MatchPattern(k, t, w, i) ==
    CASE k = 1 -> MatchDeclaration(t, w, i)
      [] k = 2 -> MatchFunctionExpr(t, w, i)
      [] k = 3 -> MatchAsyncAssign(t, w, i)
      [] k = 4 -> MatchArrowAssign(t, w, i)
      [] k = 5 -> MatchMethod(t, w, i)
      [] OTHER -> MatchGlobal(t, w, i)

\* pattern.finditer(text): the group(1) of every match, scanning from pos;
\* the scan resumes at the end of each match (matches never overlap)
RECURSIVE FindIter(_, _, _, _)
FindIter(k, t, w, pos) ==
    IF pos > Len(t) THEN {}
    ELSE LET m == MatchPattern(k, t, w, pos)
         IN  IF m.end > 0
             THEN {m.name} \cup FindIter(k, t, w, m.end)
             ELSE FindIter(k, t, w, pos + 1)

\* extract_symbols with the last pattern of the list left out
extract_symbols_FourPatterns(t) ==
    LET w == WordMask(t)
    IN  << FindIter(0, t, w, 1),
           UNION { FindIter(k, t, w, 1) : k \in 1..(NumPatterns - 1) } >>

\* extract_symbols(text): <<globals_set, functions_set>>
extract_symbols(t) ==
    LET w == WordMask(t)
    IN  << FindIter(0, t, w, 1),
           UNION { FindIter(k, t, w, 1) : k \in 1..NumPatterns } >>

\* sep.join(ls)
RECURSIVE JoinWith(_, _)
JoinWith(ls, sep) ==
    IF Len(ls) = 0 THEN << >>
    ELSE IF Len(ls) = 1 THEN ls[1]
    ELSE ls[1] \o sep \o JoinWith(Tail(ls), sep)

(***************************************************************************)
(* Reading a file: path.read_text decodes the bytes as UTF-8 and, the file *)
(* being opened in text mode, reads "\r\n" and "\r" as "\n".               *)
(***************************************************************************)
\* the position of the first element of S in t, Len(t) + 1 when none
FirstIn(t, S) ==
    CHOOSE i \in 1..(Len(t) + 1) :
        /\ i = Len(t) + 1 \/ t[i] \in S
        /\ \A j \in 1..(i - 1) : t[j] \notin S

\* for a byte b: <<n, lo, hi>>, the length n of the sequences b leads and
\* the range lo..hi their second byte must lie in (n = 0: b leads none).
\* 0xC0, 0xC1 and 0xF5 to 0xFF lead nothing; the narrower second bytes keep
\* out the overlong forms, the surrogates and the code points past U+10FFFF.
SeqShape(b) ==
    IF b < 128 THEN <<1, 0, 0>>
    ELSE IF 194 <= b /\ b <= 223 THEN <<2, 128, 191>>
    ELSE IF b = 224 THEN <<3, 160, 191>>
    ELSE IF b = 237 THEN <<3, 128, 159>>
    ELSE IF 225 <= b /\ b <= 239 THEN <<3, 128, 191>>
    ELSE IF b = 240 THEN <<4, 144, 191>>
    ELSE IF 241 <= b /\ b <= 243 THEN <<4, 128, 191>>
    ELSE IF b = 244 THEN <<4, 128, 143>>
    ELSE <<0, 0, 0>>

\* the number of bytes after position i that continue the sequence led by
\* the byte at i
Followers(bytes, i) ==
    LET sh == SeqShape(bytes[i])
        fits(k) == /\ i + k <= Len(bytes)
                   /\ IF k = 1 THEN sh[2] <= bytes[i + 1] /\ bytes[i + 1] <= sh[3]
                      ELSE 128 <= bytes[i + k] /\ bytes[i + k] <= 191
        good == { m \in 0..3 : m < sh[1] /\ \A k \in 1..m : fits(k) }
    IN  IF good = {} THEN 0 ELSE CHOOSE m \in good : \A l \in good : l <= m

\* the code point of the complete sequence of n bytes at position i
CodePoint(bytes, i, n) ==
    CASE n = 2 -> (bytes[i] - 192) * 64 + (bytes[i + 1] - 128)
      [] n = 3 -> (bytes[i] - 224) * 4096 + (bytes[i + 1] - 128) * 64
                      + (bytes[i + 2] - 128)
      [] n = 4 -> (bytes[i] - 240) * 262144 + (bytes[i + 1] - 128) * 4096
                      + (bytes[i + 2] - 128) * 64 + (bytes[i + 3] - 128)
      [] OTHER -> bytes[i]

\* bytes.decode("utf-8", errors): a complete sequence gives its code point;
\* a byte that leads nothing, or a lead with the bytes of its sequence that
\* do follow, is one error and gives sub (<< >> for errors="ignore")
RECURSIVE Utf8Decode(_, _)
Utf8Decode(bytes, sub) ==
    LET i == FirstIn(bytes, 128..255)
    IN  IF i > Len(bytes) THEN bytes
        ELSE LET n == SeqShape(bytes[i])[1]
                 m == Followers(bytes, i)
                 out == IF n > 0 /\ m = n - 1
                        THEN << CodePoint(bytes, i, n) >>
                        ELSE sub
             IN  SubSeq(bytes, 1, i - 1) \o out
                     \o Utf8Decode(SubSeq(bytes, i + m + 1, Len(bytes)), sub)

\* bytes.decode("utf-8") raises UnicodeDecodeError: some sequence is in error
RECURSIVE DecodeFails(_)
DecodeFails(bytes) ==
    LET i == FirstIn(bytes, 128..255)
    IN  IF i > Len(bytes) THEN FALSE
        ELSE LET n == SeqShape(bytes[i])[1]
                 m == Followers(bytes, i)
             IN  IF n > 0 /\ m = n - 1
                 THEN DecodeFails(SubSeq(bytes, i + n, Len(bytes)))
                 ELSE TRUE

\* text mode with newline=None: "\r\n" and "\r" are read as "\n"
RECURSIVE UniversalNewlines(_)
UniversalNewlines(t) ==
    LET i == FirstIn(t, {ord["\r"]})
        j == IF i < Len(t) /\ t[i + 1] = ord["\n"] THEN i + 2 ELSE i + 1
    IN  IF i > Len(t) THEN t
        ELSE SubSeq(t, 1, i - 1) \o << ord["\n"] >>
                 \o UniversalNewlines(SubSeq(t, j, Len(t)))

\* path.read_text(encoding="utf-8", errors="ignore")   (main, line 97)
DecodeIgnore(bytes) == UniversalNewlines(Utf8Decode(bytes, << >>))

\* path.read_text(encoding="utf-8")   (load_docs, line 61), when it returns
read_text(bytes) == UniversalNewlines(Utf8Decode(bytes, << >>))

\* the first *.md entry, in the order rglob lists them, on which read_text
\* raises: it cannot be read (OSError) or is not valid UTF-8; 0 when none
FirstFailing(dr) ==
    LET bad == { i \in 1..Len(dr.files) :
                     i \in dr.unreadable \/ DecodeFails(dr.files[i]) }
    IN  IF ~dr.exists \/ bad = {} THEN 0
        ELSE CHOOSE i \in bad : \A j \in bad : i <= j

\* load_docs(doc_root) raises
LoadDocsFails(dr) == FirstFailing(dr) > 0

\* load_docs joining the texts with no separator
load_docs_NoSeparator(dr) ==
    IF ~dr.exists THEN << >>
    ELSE JoinWith([i \in 1..Len(dr.files) |-> read_text(dr.files[i])], << >>)

\* load_docs(doc_root): the *.md texts under the root, in the order rglob
\* lists them, joined by newlines; "" when the root does not exist
load_docs(dr) ==
    IF ~dr.exists THEN << >>
    ELSE JoinWith([i \in 1..Len(dr.files) |-> read_text(dr.files[i])], Str("\n"))

\* is_documented with the empty-corpus guard answering True
is_documented_EmptyCorpusMatches(n, corpus) ==
    IF corpus = << >> THEN TRUE
    ELSE LET w == WordMask(corpus)
         IN  \E i \in 1..(Len(corpus) + 1) :
                /\ WordBoundary(corpus, w, i)
                /\ LitAt(corpus, i, n)
                /\ WordBoundary(corpus, w, i + Len(n))

\* is_documented(name, doc_text): re.search(rf"\b{re.escape(name)}\b", doc_text)
is_documented(n, corpus) ==
    IF corpus = << >> THEN FALSE
    ELSE LET w == WordMask(corpus)
         IN  \E i \in 1..(Len(corpus) + 1) :
                /\ WordBoundary(corpus, w, i)
                /\ LitAt(corpus, i, n)
                /\ WordBoundary(corpus, w, i + Len(n))

\* set(names)
SetOf(ns) == { ns[i] : i \in 1..Len(ns) }

\* compute_coverage counting over the sequence, not over set(names)
compute_coverage_CountsRepeats(ns, corpus) ==
    IF Len(ns) = 0 THEN <<0, 0>>
    ELSE << Cardinality({ i \in 1..Len(ns) : is_documented(ns[i], corpus) }),
            Len(ns) >>

\* compute_coverage(names, doc_text): <<documented, total>>
compute_coverage(ns, corpus) ==
    LET names_set == SetOf(ns)
    IN  IF names_set = {} THEN <<0, 0>>
        ELSE << Cardinality({ n \in names_set : is_documented(n, corpus) }),
                Cardinality(names_set) >>

(***************************************************************************)
(* Inputs of extract_symbols: source texts of up to MaxLines lines.        *)
(***************************************************************************)
MaxLines == 3

SourceLines ==
    { Str("const topLevel = 1"),
      Str("var legacy"),
      Str("function declared() {}"),
      Str("const arrow = () => {}"),
      Str("  const nested = 1"),
      Str("const"),
      Str("asyncLocal: async () => {}"),
      Str("const method: () => void = () => {}"),
      Str("constant = 1"),
      Str("let topLevel = function declared() {}") }

LineTexts ==
    { JoinWith(ls, Str("\n")) : ls \in UNION { [1..n -> SourceLines] : n \in 0..MaxLines } }

\* the scenario of the test suite's first five declarations
ScenarioText ==
    JoinWith(<< Str("const topLevel = 1"), Str("let another = 2"), Str("var legacy"),
                Str("function declared() {}"), Str("const arrow = () => {}") >>, Str("\n"))

\* one declaration in the shape of pattern k of extract_symbols, binding n
PatternSnippet(k, n) ==
    CASE k = 1 -> Str("function ") \o n \o Str("() {}")
      [] k = 2 -> n \o Str(" = function () {}")
      [] k = 3 -> n \o Str(" = async (x) => x")
      [] k = 4 -> n \o Str(" = (x) => x")
      [] OTHER -> n \o Str(": async (x) => x")

PatternNames == << Str("declared"), Str("handler"), Str("load"), Str("arrow"), Str("method") >>

\* the five names, all distinct or with one name used by two patterns
NameAssignments ==
    {PatternNames} \cup
    { [PatternNames EXCEPT ![j] = PatternNames[1]] : j \in 1..NumPatterns }

Permutations5 ==
    { p \in [1..NumPatterns -> 1..NumPatterns] :
        \A i, j \in 1..NumPatterns : p[i] = p[j] => i = j }

\* texts holding one declaration of each of the five shapes, in any order
PatternTexts ==
    { JoinWith([i \in 1..NumPatterns |-> PatternSnippet(p[i], ns[p[i]])], sep) :
        p \in Permutations5, ns \in NameAssignments, sep \in {Str("\n"), Str(" ")} }

TextInputs == LineTexts \cup {ScenarioText} \cup PatternTexts

(***************************************************************************)
(* extract_symbols applied to one input text.                              *)
(***************************************************************************)
NoDocRoot == [exists |-> FALSE, files |-> << >>, unreadable |-> {}]
NoCodeRoot == [exists |-> FALSE, files |-> << >>, unreadable |-> {}]
NoReport == [modules |-> <<0, 0>>, globals |-> <<0, 0>>, functions |-> <<0, 0>>,
             coverage_pct |-> <<0, 1>>]

IdleExtract == text = << >> /\ globals_set = {} /\ functions_set = {}
IdleDocs == doc_root = NoDocRoot /\ doc_text = << >>
IdleQuery == name = << >> /\ documented = FALSE
IdleCoverage == names = << >> /\ tally = <<0, 0>>
IdleMain ==
    /\ code_root = NoCodeRoot
    /\ stack = << >> /\ root = << >> /\ files = << >> /\ visited = << >>
    /\ modules = << >> /\ globals_names = << >> /\ functions_names = << >>
    /\ report = NoReport

InitExtract ==
    /\ pc = "extract"
    /\ text \in TextInputs
    /\ globals_set = {}
    /\ functions_set = {}
    /\ IdleDocs /\ IdleQuery /\ IdleCoverage /\ IdleMain

ExtractSymbols ==
    /\ pc = "extract"
    /\ LET symbols == extract_symbols(text)
       IN  /\ globals_set' = symbols[1]
           /\ functions_set' = symbols[2]
    /\ pc' = "extracted"
    /\ UNCHANGED <<text, docVars, queryVars, coverageVars, mainVars>>

NextExtract == ExtractSymbols

SpecExtract == InitExtract /\ [][NextExtract]_vars

(***************************************************************************)
(* Claims about extract_symbols (checked under SpecExtract).               *)
(***************************************************************************)
Keywords == {ConstKw, LetKw, VarKw}

\* the positions where a line-start declaration matches, and the names there
GlobalStarts(t) == { i \in 1..Len(t) : MatchGlobal(t, WordMask(t), i).end > 0 }
DeclaredNames(t) == { MatchGlobal(t, WordMask(t), i).name : i \in GlobalStarts(t) }

\* the positions where function pattern k matches, and the names there
PatternStarts(k, t) ==
    { i \in 1..Len(t) : MatchPattern(k, t, WordMask(t), i).end > 0 }
PatternHits(k, t) ==
    { MatchPattern(k, t, WordMask(t), i).name : i \in PatternStarts(k, t) }
FunctionNames(t) == UNION { PatternHits(k, t) : k \in 1..NumPatterns }

\* C3 as stated: the globals set and the functions set returned by
\* extract_symbols are disjoint for every input text.
C3_Disjoint ==
    pc = "extracted" => globals_set \cap functions_set = {}

\* C3 amended: the two sets are disjoint except for names that a line-start
\* const/let/var declaration binds and a function pattern also captures; for
\* `const arrow = () => {}` the name arrow is in both sets, and a text with no
\* line-start declaration yields disjoint sets.
C3_OverlapOnlyDeclaredFunctions ==
    pc = "extracted" =>
        /\ \A n \in globals_set \cap functions_set :
               n \in DeclaredNames(text) /\ n \in FunctionNames(text)
        /\ (GlobalStarts(text) = {} => globals_set \cap functions_set = {})
        /\ (text = Str("const arrow = () => {}") =>
               /\ Str("arrow") \in globals_set
               /\ Str("arrow") \in functions_set)

C3_Witness ==
    /\ pc = "extracted"
    /\ text = Str("const arrow = () => {}")
    /\ globals_set \cap functions_set = {Str("arrow")}

\* C4 as stated: the five-line scenario yields globals exactly
\* {topLevel, another, legacy} and functions containing declared and arrow,
\* and a name is in globals iff a line starts with const/let/var, whitespace
\* and that identifier.
C4_ScenarioExact ==
    pc = "extracted" =>
        /\ (text = ScenarioText =>
               /\ globals_set = {Str("topLevel"), Str("another"), Str("legacy")}
               /\ {Str("declared"), Str("arrow")} \subseteq functions_set)
        /\ globals_set = DeclaredNames(text)

\* C4 amended: the scenario yields globals exactly
\* {topLevel, another, legacy, arrow} and functions containing declared and
\* arrow; every name in globals follows a line-start const/let/var and
\* whitespace, and every such declaration's identifier is in globals provided
\* no declaration's identifier is itself const, let or var.
C4_ScenarioWithArrow ==
    pc = "extracted" =>
        /\ (text = ScenarioText =>
               /\ globals_set = {Str("topLevel"), Str("another"), Str("legacy"), Str("arrow")}
               /\ {Str("declared"), Str("arrow")} \subseteq functions_set)
        /\ globals_set \subseteq DeclaredNames(text)
        /\ (DeclaredNames(text) \cap Keywords = {} =>
               globals_set = DeclaredNames(text))

C4_Witness ==
    /\ pc = "extracted"
    /\ text = ScenarioText
    /\ Str("arrow") \in globals_set
    /\ Cardinality(globals_set) = 4

\* exactly one instance of each of the five function patterns
OneInstanceEach(t) ==
    \A k \in 1..NumPatterns : Cardinality(PatternStarts(k, t)) = 1

\* the five instances bind pairwise distinct bare names
DistinctInstanceNames(t) ==
    \A k, l \in 1..NumPatterns : k # l => PatternHits(k, t) \cap PatternHits(l, t) = {}

\* C9: a text with exactly one instance of each of the five function
\* patterns and no line-start const/let/var declaration yields an empty
\* globals set and a functions set holding exactly the names of the five
\* instances: 5 names when they are distinct, a shared name counted once.
C9_FivePatternsFiveNames ==
    (pc = "extracted" /\ OneInstanceEach(text) /\ GlobalStarts(text) = {}) =>
        /\ globals_set = {}
        /\ functions_set = FunctionNames(text)
        /\ Cardinality(functions_set) <= NumPatterns
        /\ (DistinctInstanceNames(text) => Cardinality(functions_set) = NumPatterns)

C9_Witness ==
    /\ pc = "extracted"
    /\ OneInstanceEach(text)
    /\ DistinctInstanceNames(text)
    /\ GlobalStarts(text) = {}
    /\ Cardinality(functions_set) = NumPatterns
    /\ globals_set = {}

(***************************************************************************)
(* Documentation roots: the *.md texts in the order rglob lists them.      *)
(***************************************************************************)
MaxDocs == 3

DocPool ==
    { Str("The loader calls compileSCSS before injectCSS runs."),
      Str("moduleA:foo moduleA:bar cables"),
      Str("a"),
      Str("b"),
      Str("f("),
      << >> }

\* the sequences of n distinct elements of S
Arrangements(S, n) ==
    { q \in [1..n -> S] : \A i, j \in 1..n : q[i] = q[j] => i = j }

DocRoots ==
    {NoDocRoot} \cup
    { [exists |-> TRUE, files |-> fs, unreadable |-> {}] :
        fs \in UNION { Arrangements(DocPool, n) : n \in 0..MaxDocs } }

\* doc_text = load_docs(doc_root)   (main, line 92); a *.md entry that
\* cannot be read or is not valid UTF-8 makes read_text raise, and nothing
\* catches it
LoadDocs ==
    /\ pc = "load"
    /\ IF LoadDocsFails(doc_root)
       THEN /\ pc' = IF FirstFailing(doc_root) \in doc_root.unreadable
                     THEN "OSError"
                     ELSE "UnicodeDecodeError"
            /\ doc_text' = doc_text
       ELSE /\ doc_text' = load_docs(doc_root)
            /\ pc' = "loaded"
    /\ UNCHANGED <<doc_root, extractVars, queryVars, coverageVars, mainVars>>

(***************************************************************************)
(* is_documented applied to one name and the loaded corpus.                *)
(***************************************************************************)
QueryNames ==
    { Str("bootstrap/local/sass-compiler.js:compileSCSS"),
      Str("compileSCSS"),
      Str("moduleA:foo"),
      Str("cable"),
      Str("a"),
      Str("ab"),
      Str("a\nb"),
      Str("f("),
      << >> }

InitDocumented ==
    /\ pc = "load"
    /\ doc_root \in DocRoots
    /\ doc_text = << >>
    /\ name \in QueryNames
    /\ documented = FALSE
    /\ IdleExtract /\ IdleCoverage /\ IdleMain

IsDocumented ==
    /\ pc = "loaded"
    /\ documented' = is_documented(name, doc_text)
    /\ pc' = "queried"
    /\ UNCHANGED <<name, docVars, extractVars, coverageVars, mainVars>>

NextDocumented == LoadDocs \/ IsDocumented

SpecDocumented == InitDocumented /\ [][NextDocumented]_vars

(***************************************************************************)
(* compute_coverage applied to one name sequence and the loaded corpus.    *)
(***************************************************************************)
MaxNames == 4

CoverageNames ==
    { Str("moduleA:foo"), Str("moduleA:untracked"), Str("moduleA:bar"), Str("moduleB:baz"), Str("cables") }

CoverageDocRoots ==
    { NoDocRoot,
      [exists |-> TRUE, files |-> << >>, unreadable |-> {}],
      [exists |-> TRUE, files |-> << Str("moduleA:foo moduleA:bar cables") >>, unreadable |-> {}],
      [exists |-> TRUE, files |-> << Str("# moduleB"), Str("moduleB:baz."), Str("see moduleA:foobar") >>, unreadable |-> {}] }

InitCoverage ==
    /\ pc = "load"
    /\ doc_root \in CoverageDocRoots
    /\ doc_text = << >>
    /\ names \in UNION { [1..n -> CoverageNames] : n \in 0..MaxNames }
    /\ tally = <<0, 0>>
    /\ IdleExtract /\ IdleQuery /\ IdleMain

ComputeCoverage ==
    /\ pc = "loaded"
    /\ tally' = compute_coverage(names, doc_text)
    /\ pc' = "covered"
    /\ UNCHANGED <<names, docVars, extractVars, queryVars, mainVars>>

NextCoverage == LoadDocs \/ ComputeCoverage

SpecCoverage == InitCoverage /\ [][NextCoverage]_vars

(***************************************************************************)
(* Claims about compute_coverage (checked under SpecCoverage).             *)
(***************************************************************************)
\* the positions of the first occurrence of each name of the sequence
FirstOccurrences(ns) ==
    { i \in 1..Len(ns) : \A j \in 1..(i - 1) : ns[j] # ns[i] }

\* C1: compute_coverage(names, corpus) returns exactly (k, n): n the number
\* of distinct names of the sequence, k the number of those distinct names
\* that is_documented accepts; repeated names change neither, k <= n, and
\* the test suite's corpus and four names give (2, 4).
C1_CoverageCountsDistinctNames ==
    pc = "covered" =>
        LET first == FirstOccurrences(names)
            hits == { i \in first : is_documented(names[i], doc_text) }
        IN  /\ tally = << Cardinality(hits), Cardinality(first) >>
            /\ tally[1] <= tally[2]
            /\ ( /\ doc_text = Str("moduleA:foo moduleA:bar cables")
                 /\ names = << Str("moduleA:foo"), Str("moduleA:untracked"),
                               Str("moduleA:bar"), Str("moduleB:baz") >>
                 => tally = <<2, 4>> )

C1_Witness ==
    /\ pc = "covered"
    /\ doc_text = Str("moduleA:foo moduleA:bar cables")
    /\ Len(names) = 4
    /\ Cardinality(SetOf(names)) = 3
    /\ tally = <<2, 3>>

(***************************************************************************)
(* Claims about is_documented (checked under SpecDocumented).              *)
(***************************************************************************)
\* the position of the last ":" of q, 0 when it has none
LastColon(q) ==
    LET at == { i \in 1..Len(q) : Ch(q, i) = ord[":"] }
    IN  IF at = {} THEN 0 ELSE CHOOSE i \in at : \A j \in at : j <= i

\* the bare name of a qualified name <relative-path>:<bare-name>
BareName(q) == SubSeq(q, LastColon(q) + 1, Len(q))

\* w occurs in the corpus as a whole word
HasWholeWord(corpus, w) ==
    \E i \in 1..Len(corpus) :
        /\ LitAt(corpus, i, w)
        /\ WordBoundary(corpus, WordMask(corpus), i)
        /\ WordBoundary(corpus, WordMask(corpus), i + Len(w))

\* C2: is_documented(q, corpus) is true for a qualified name
\* <relative-path>:<bare-name> whenever the corpus contains the bare name as
\* a whole word, even if q itself never appears in the corpus.
C2_BareNameSuffices ==
    ( /\ pc = "queried"
      /\ LastColon(name) > 1
      /\ BareName(name) # << >>
      /\ HasWholeWord(doc_text, BareName(name)) )
    => documented

\* every ordering of the sequence fs
Orderings(fs) ==
    { [i \in 1..Len(fs) |-> fs[q[i]]] : q \in Arrangements(1..Len(fs), Len(fs)) }

HasNewline(n) == \E i \in 1..Len(n) : Ch(n, i) = ord["\n"]

\* the answer is_documented gives for every ordering of the documents
SameForEveryOrdering ==
    \A fs \in Orderings(doc_root.files) :
        is_documented(name, load_docs([doc_root EXCEPT !.files = fs])) = documented

\* C8 as stated: for a corpus built by joining documents with newlines,
\* is_documented(name, corpus) is the same for every ordering of the documents.
C8_OrderIndependent ==
    pc = "queried" => SameForEveryOrdering

\* C8 amended: for every name that contains no newline character,
\* is_documented(name, corpus) is the same for every ordering of the documents
\* joined into the corpus.
C8_OrderIndependentWithinLines ==
    (pc = "queried" /\ ~HasNewline(name)) => SameForEveryOrdering

C8_Witness ==
    /\ pc = "queried"
    /\ ~HasNewline(name)
    /\ Len(doc_root.files) = 3
    /\ doc_root.files[3] = Str("moduleA:foo moduleA:bar cables")
    /\ name = Str("moduleA:foo")
    /\ documented

(***************************************************************************)
(* The source enumerator and the run of main.  A path is the sequence of   *)
(* its components below the code root; the code root itself is << >>.      *)
(***************************************************************************)
Extensions == {Str(".js"), Str(".jsx"), Str(".ts"), Str(".tsx")}
IgnoreDirs == {Str(".git"), Str("dist"), Str("node_modules"), Str("build")}

\* Path(...).suffix of a file name: from its last dot, when that dot is
\* neither the first nor the last character
Suffix(entry) ==
    LET dots == { i \in 1..Len(entry) : Ch(entry, i) = ord["."] }
        last == IF dots = {} THEN 0 ELSE CHOOSE i \in dots : \A j \in dots : j <= i
    IN  IF 1 < last /\ last < Len(entry) THEN SubSeq(entry, last, Len(entry)) ELSE << >>

IsPrefix(d, q) == Len(d) <= Len(q) /\ SubSeq(q, 1, Len(d)) = d

\* the listing of directory d: its sub-directories and its files
SubDirs(cr, d) ==
    { q[Len(d) + 1] : q \in { f \in DOMAIN cr.files : IsPrefix(d, f) /\ Len(f) > Len(d) + 1 } }
FilesIn(cr, d) ==
    { q[Len(d) + 1] : q \in { f \in DOMAIN cr.files : IsPrefix(d, f) /\ Len(f) = Len(d) + 1 } }

\* dirs = [...] for dirs[:] = [...]: the list os.walk descends from is untouched
Prune_Rebound(dirs) == dirs

\* dirs[:] = [d for d in dirs if d not in ignore_dirs]
Prune(dirs) == SelectSeq(dirs, LAMBDA d : d \notin IgnoreDirs)

\* str(rel): the relative path as text
RelPath(path) == JoinWith(path, Str("/"))

\* the bare name, with no path in front
QualifiedName_Bare(rel, n) == n

\* f"{rel}:{name}"
QualifiedName(rel, n) == rel \o Str(":") \o n

\* Report dividing without the test of overall_total (<<0, 0>>: no value)
Report_NoZeroGuard(mods, gnames, fnames, corpus) ==
    LET m == compute_coverage(mods, corpus)
        g == compute_coverage(gnames, corpus)
        f == compute_coverage(fnames, corpus)
    IN  [modules |-> m, globals |-> g, functions |-> f,
         coverage_pct |-> <<(m[1] + g[1] + f[1]) * 100, m[2] + g[2] + f[2]>>]

\* the three tallies and the overall percentage (lines 102-108); the
\* percentage is kept as the exact ratio <<numerator, denominator>>
Report(mods, gnames, fnames, corpus) ==
    LET m == compute_coverage(mods, corpus)
        g == compute_coverage(gnames, corpus)
        f == compute_coverage(fnames, corpus)
        overall_total == m[2] + g[2] + f[2]
        overall_docged == m[1] + g[1] + f[1]
    IN  [modules |-> m, globals |-> g, functions |-> f,
         coverage_pct |-> IF overall_total # 0
                          THEN <<overall_docged * 100, overall_total>>
                          ELSE <<100, 1>>]

\* os.walk reaches the next directory: it is listed (in whatever order the
\* file system gives), its ignored sub-directories are pruned, the others
\* are walked next, depth first.  A directory that cannot be listed (a code
\* root that does not exist) is passed over.
WalkNext ==
    /\ pc = "loaded"
    /\ files = << >>
    /\ stack # << >>
    /\ LET top == Head(stack)
       IN  IF ~code_root.exists
           THEN /\ stack' = Tail(stack)
                /\ UNCHANGED <<root, files, visited>>
           ELSE \E dirs \in Arrangements(SubDirs(code_root, top),
                                         Cardinality(SubDirs(code_root, top))),
                   listed \in Arrangements(FilesIn(code_root, top),
                                           Cardinality(FilesIn(code_root, top))) :
                    /\ root' = top
                    /\ visited' = Append(visited, top)
                    /\ files' = listed
                    /\ stack' = [i \in 1..Len(Prune(dirs)) |-> Append(top, Prune(dirs)[i])]
                                    \o Tail(stack)
    /\ UNCHANGED <<pc, code_root, modules, globals_names, functions_names, report,
                   extractVars, docVars, queryVars, coverageVars>>

\* an entry whose suffix is not a source extension is not yielded
SkipEntry ==
    /\ pc = "loaded"
    /\ files # << >>
    /\ Suffix(Head(files)) \notin Extensions
    /\ files' = Tail(files)
    /\ UNCHANGED <<pc, code_root, stack, root, visited, modules, globals_names,
                   functions_names, report, extractVars, docVars, queryVars,
                   coverageVars>>

\* the text of a source file, read with errors="ignore" (line 97)
ReadSource(cr, path) == DecodeIgnore(cr.files[path])

\* ScanFile with the read wrapped in try/except OSError: continue
ScanFile_SkipsUnreadable ==
    /\ pc = "loaded"
    /\ files # << >>
    /\ Suffix(Head(files)) \in Extensions
    /\ LET path == Append(root, Head(files))
           rel == RelPath(path)
           symbols == extract_symbols(ReadSource(code_root, path))
       IN  IF path \in code_root.unreadable
           THEN /\ modules' = Append(modules, rel)
                /\ UNCHANGED <<pc, text, globals_set, functions_set, globals_names,
                               functions_names>>
           ELSE /\ modules' = Append(modules, rel)
                /\ text' = ReadSource(code_root, path)
                /\ globals_set' = symbols[1]
                /\ functions_set' = symbols[2]
                /\ \E gs \in Arrangements(symbols[1], Cardinality(symbols[1])) :
                       globals_names' =
                           globals_names \o [i \in 1..Len(gs) |-> QualifiedName(rel, gs[i])]
                /\ \E fs \in Arrangements(symbols[2], Cardinality(symbols[2])) :
                       functions_names' =
                           functions_names \o [i \in 1..Len(fs) |-> QualifiedName(rel, fs[i])]
                /\ pc' = pc
    /\ files' = Tail(files)
    /\ UNCHANGED <<code_root, stack, root, visited, report, docVars, queryVars,
                   coverageVars>>

\* a source file is yielded and the body of main's loop runs on it
\* (lines 95-100); a set is iterated in an arbitrary order.  When the file
\* cannot be read, read_text raises OSError after the path was appended to
\* modules, nothing catches it and the run ends there.
ScanFile ==
    /\ pc = "loaded"
    /\ files # << >>
    /\ Suffix(Head(files)) \in Extensions
    /\ LET path == Append(root, Head(files))
           rel == RelPath(path)
           symbols == extract_symbols(ReadSource(code_root, path))
       IN  IF path \in code_root.unreadable
           THEN /\ modules' = Append(modules, rel)
                /\ pc' = "OSError"
                /\ UNCHANGED <<text, globals_set, functions_set, globals_names,
                               functions_names, files>>
           ELSE /\ modules' = Append(modules, rel)
                /\ text' = ReadSource(code_root, path)
                /\ globals_set' = symbols[1]
                /\ functions_set' = symbols[2]
                /\ \E gs \in Arrangements(symbols[1], Cardinality(symbols[1])) :
                       globals_names' =
                           globals_names \o [i \in 1..Len(gs) |-> QualifiedName(rel, gs[i])]
                /\ \E fs \in Arrangements(symbols[2], Cardinality(symbols[2])) :
                       functions_names' =
                           functions_names \o [i \in 1..Len(fs) |-> QualifiedName(rel, fs[i])]
                /\ files' = Tail(files)
                /\ pc' = pc
    /\ UNCHANGED <<code_root, stack, root, visited, report, docVars, queryVars,
                   coverageVars>>

\* the walk is over: the tallies and the percentage are computed
Finish ==
    /\ pc = "loaded"
    /\ files = << >>
    /\ stack = << >>
    /\ report' = Report(modules, globals_names, functions_names, doc_text)
    /\ pc' = "done"
    /\ UNCHANGED <<code_root, walkVars, modules, globals_names, functions_names,
                   extractVars, docVars, queryVars, coverageVars>>

Next == LoadDocs \/ WalkNext \/ SkipEntry \/ ScanFile \/ Finish

InitRun ==
    /\ pc = "load"
    /\ doc_text = << >>
    /\ stack = << << >> >>
    /\ root = << >>
    /\ files = << >>
    /\ visited = << >>
    /\ modules = << >>
    /\ globals_names = << >>
    /\ functions_names = << >>
    /\ report = NoReport
    /\ IdleExtract /\ IdleQuery /\ IdleCoverage

(***************************************************************************)
(* Runs over small code roots with varied texts and documentation.         *)
(***************************************************************************)
MaxFiles == 2

SourcePaths ==
    { << Str("app.js") >>, << Str("src"), Str("app.js") >>, << Str("src"), Str("a:b.ts") >>,
      << Str("build"), Str("out.js") >>, << Str("README.md") >> }

SourceTexts ==
    { << >>,
      Str("const exposed = 1\nfunction helper() {}\n"),
      Str("const exposed = 1\nconst exposed = 2\nlet helper = function () {}\nfunction helper() {}") }

RunDocRoots ==
    { NoDocRoot,
      [exists |-> TRUE, files |-> << >>, unreadable |-> {}],
      [exists |-> TRUE, files |-> << Str("app.js:helper") >>, unreadable |-> {}],
      [exists |-> TRUE, files |-> << Str("# src/app.js"), Str("src/app.js:exposed and app.js:exposed.") >>, unreadable |-> {}] }

\* the code roots holding the files of P with texts of T, at most n files
CodeRoots(P, T, n) ==
    {NoCodeRoot} \cup
    { [exists |-> TRUE, files |-> fl, unreadable |-> {}] :
        fl \in UNION { [F -> T] : F \in { G \in SUBSET P : Cardinality(G) <= n } } }

Init ==
    /\ InitRun
    /\ code_root \in CodeRoots(SourcePaths, SourceTexts, MaxFiles)
    /\ doc_root \in RunDocRoots

Spec == Init /\ [][Next]_vars

(***************************************************************************)
(* Walks over larger trees of empty files, without documentation.          *)
(***************************************************************************)
MaxTreeFiles == 3

TreePaths ==
    { << Str("app.js") >>,
      << Str("src"), Str("view.jsx") >>,
      << Str("src"), Str("lib"), Str("mod.ts") >>,
      << Str("src"), Str("lib"), Str("comp.tsx") >>,
      << Str("node_modules"), Str("pkg"), Str("index.js") >>,
      << Str("src"), Str("build"), Str("out.js") >>,
      << Str("dist"), Str("bundle.tsx") >>,
      << Str(".git"), Str("hooks"), Str("pre.js") >>,
      << Str("README.md") >>,
      << Str("src"), Str(".js") >>,
      << Str("src"), Str("notes.js.") >>,
      << Str("lib.js"), Str("inner.ts") >>,
      << Str("builds"), Str("build.js") >> }

InitWalk ==
    /\ InitRun
    /\ code_root \in CodeRoots(TreePaths, {<< >>}, MaxTreeFiles)
    /\ doc_root = NoDocRoot

SpecWalk == InitWalk /\ [][Next]_vars

(***************************************************************************)
(* Claims about the run of main (checked under Spec).                      *)
(***************************************************************************)
\* C5: when the documentation root does not exist, load_docs returns the
\* empty string, and against an empty corpus no name is documented: each of
\* the run's three tallies is (0, n), n the number of distinct names.
C5_MissingDocsNothingDocumented ==
    /\ (pc # "load" /\ ~doc_root.exists) => doc_text = << >>
    /\ (pc = "done" /\ doc_text = << >>) =>
           /\ report.modules = <<0, Cardinality(SetOf(modules))>>
           /\ report.globals = <<0, Cardinality(SetOf(globals_names))>>
           /\ report.functions = <<0, Cardinality(SetOf(functions_names))>>
           /\ \A n \in SetOf(modules) \cup SetOf(globals_names) \cup SetOf(functions_names) :
                  ~is_documented(n, doc_text)

C5_Witness ==
    /\ pc = "done"
    /\ ~doc_root.exists
    /\ doc_text = << >>
    /\ report.modules = <<0, 2>>
    /\ report.globals = <<0, 3>>
    /\ report.functions = <<0, 2>>

\* C6: when the enumerator yields no source file (the code root may not
\* exist), the run ends with the three tallies (0, 0) and an overall
\* coverage of 100, whatever the corpus.
C6_NoSourcesFullCoverage ==
    (pc = "done" /\ modules = << >>) =>
        /\ report.modules = <<0, 0>>
        /\ report.globals = <<0, 0>>
        /\ report.functions = <<0, 0>>
        /\ report.coverage_pct = <<100, 1>>

C6_Witness ==
    /\ pc = "done"
    /\ modules = << >>
    /\ code_root.exists
    /\ DOMAIN code_root.files # {}
    /\ doc_text # << >>
    /\ report.coverage_pct = <<100, 1>>

\* the number of distinct bare names of kind k (1 globals, 2 functions)
\* extracted from the files of the set S, summed file by file
RECURSIVE SumExtracted(_, _)
SumExtracted(S, k) ==
    IF S = {} THEN 0
    ELSE LET f == CHOOSE g \in S : TRUE
         IN  Cardinality(extract_symbols(ReadSource(code_root, f))[k])
                 + SumExtracted(S \ {f}, k)

\* the files the scan loop has processed
Scanned == { f \in DOMAIN code_root.files : RelPath(f) \in SetOf(modules) }

\* C10: the globals total and the functions total of the run equal the sum
\* over the scanned files of the number of distinct bare names extracted
\* from each file; no two (file, bare name) pairs give the same qualified
\* name.
C10_TotalsSumPerFile ==
    /\ Cardinality(SetOf(globals_names)) = Len(globals_names)
    /\ Cardinality(SetOf(functions_names)) = Len(functions_names)
    /\ pc = "done" =>
           /\ report.globals[2] = SumExtracted(Scanned, 1)
           /\ report.functions[2] = SumExtracted(Scanned, 2)

C10_Witness ==
    /\ pc = "done"
    /\ Len(modules) = 2
    /\ \A f \in Scanned : Str("exposed") \in extract_symbols(ReadSource(code_root, f))[1]
    /\ \E f \in Scanned : Len(code_root.files[f]) > Len(Str("const exposed = 1\nfunction helper() {}\n"))
    /\ report.globals[2] = 3
    /\ report.functions[2] = 2

(***************************************************************************)
(* Claims about collect_source_files (checked under SpecWalk).             *)
(***************************************************************************)
EndsWith(t, e) == Len(t) >= Len(e) /\ SubSeq(t, Len(t) - Len(e) + 1, Len(t)) = e

\* the file name is a non-empty stem followed by one of the extensions
HasSourceExtension(entry) ==
    \E e \in {Str(".js"), Str(".jsx"), Str(".ts"), Str(".tsx")} : EndsWith(entry, e) /\ Len(entry) > Len(e)

\* no component of the directory path d is an ignored name
NotIgnored(d) ==
    \A k \in 1..Len(d) : d[k] \notin {Str(".git"), Str("dist"), Str("node_modules"), Str("build")}

ExpectedSources ==
    { f \in DOMAIN code_root.files :
        HasSourceExtension(f[Len(f)]) /\ NotIgnored(SubSeq(f, 1, Len(f) - 1)) }

\* C7: collect_source_files yields exactly the files with a source extension
\* that have no ignored ancestor directory below the code root, each once,
\* and never lists (or queues) a directory inside an ignored subtree.
C7_WalkYieldsExactlyUnignoredSources ==
    /\ \A i \in 1..Len(visited) : NotIgnored(visited[i])
    /\ \A i \in 1..Len(stack) : NotIgnored(stack[i])
    /\ Cardinality(SetOf(modules)) = Len(modules)
    /\ SetOf(modules) \subseteq { RelPath(f) : f \in ExpectedSources }
    /\ pc = "done" => SetOf(modules) = { RelPath(f) : f \in ExpectedSources }

C7_Witness ==
    /\ pc = "done"
    /\ Len(modules) = 2
    /\ Cardinality(DOMAIN code_root.files) = 3
    /\ \E f \in DOMAIN code_root.files :
           HasSourceExtension(f[Len(f)]) /\ ~NotIgnored(SubSeq(f, 1, Len(f) - 1))

(***************************************************************************)
(* Runs over code roots with unreadable files and files that are not valid *)
(* UTF-8 or hold carriage returns and characters beyond ASCII, and over    *)
(* documentation roots with such entries.                                  *)
(***************************************************************************)
FaultPaths == { << Str("app.js") >>, << Str("src"), Str("app.js") >>, << Str("README.md") >> }

\* 0xFF is valid nowhere in UTF-8; 0xC3 0xA9 is U+00E9, 0xC4 0x80 is U+0100
\* (both alphanumeric); 0xE2 0x80 0x94 is U+2014, a dash
FaultContents ==
    { Str("const exposed = 1\nfunction helper() {}\n"),
      Str("const ex") \o <<255>> \o Str("posed = 1\nfunction helper() {}\n"),
      Str("let caf") \o <<195, 169>> \o Str(" = 1\rfunction helper() {}\r\n"),
      Str("const a") \o <<196, 128>> \o Str(" = 1 // ") \o <<226, 128, 148>> \o Str("\n") }

FaultDocRoots ==
    { NoDocRoot,
      [exists |-> TRUE, unreadable |-> {},
       files |-> << Str("app.js:helper"), Str("src/app.js:exposed") >>],
      [exists |-> TRUE, unreadable |-> {},
       files |-> << Str("app.js:helper"), Str("caf") \o <<255>> \o Str(" app.js:exposed") >>],
      [exists |-> TRUE, unreadable |-> {},
       files |-> << Str("app.js:helper\r\nsrc/app.js:caf"),
                    Str("app.js:caf") \o <<195, 169>> >>],
      [exists |-> TRUE, unreadable |-> {},
       files |-> << Str("see ") \o <<226, 128, 148>> \o Str(" app.js:a"),
                    Str("src/app.js:a") \o <<196, 128>> >>],
      [exists |-> TRUE, unreadable |-> {2},
       files |-> << Str("app.js:exposed"), << >> >>] }

InitFaults ==
    /\ InitRun
    /\ \E cr \in CodeRoots(FaultPaths, FaultContents, MaxFiles) :
       \E u \in SUBSET (DOMAIN cr.files) :
           code_root = [cr EXCEPT !.unreadable = u]
    /\ doc_root \in FaultDocRoots

SpecFaults == InitFaults /\ [][Next]_vars

(***************************************************************************)
(* Claims about read failures (checked under SpecFaults).                  *)
(***************************************************************************)
\* the files the enumerator yields that cannot be read
UnreadableSources == { f \in ExpectedSources : f \in code_root.unreadable }

\* C11: when reading an enumerated source file fails for a reason other than
\* decoding, the run ends with that failure: the file is the last one the
\* loop reached, it is not skipped (no run completes past it), it is read
\* once, and no tallies or percentage are produced.
C11_UnreadableFileAbortsRun ==
    /\ Cardinality(SetOf(modules)) = Len(modules)
    /\ \A i \in 1..Len(modules) :
           (\E f \in UnreadableSources : RelPath(f) = modules[i]) =>
               (pc = "OSError" /\ i = Len(modules))
    /\ pc = "done" => UnreadableSources = {}
    /\ pc = "OSError" =>
           /\ report = NoReport
           /\ ~ENABLED Next
           /\ modules # << >> =>
                  \E f \in UnreadableSources : RelPath(f) = modules[Len(modules)]

C11_Witness ==
    /\ pc = "OSError"
    /\ Len(modules) = 2
    /\ Len(globals_names) = 1
    /\ doc_text # << >>
    /\ report = NoReport

\* the bytes decoded with every invalid byte replaced by U+FFFD
DecodeReplace(bytes) == UniversalNewlines(Utf8Decode(bytes, <<65533>>))

\* C12: a decoding error in a scanned source file or in a markdown file
\* never ends the run; the invalid bytes are substituted by replacement
\* characters, the corpus and the extraction are built on the decoded text,
\* and when no source file is unreadable the run produces its tallies.
C12_DecodeErrorsNeverAbort ==
    /\ pc # "UnicodeDecodeError"
    /\ (pc \in {"loaded", "done"} /\ doc_root.exists) =>
           doc_text = JoinWith([i \in 1..Len(doc_root.files) |->
                                    DecodeReplace(doc_root.files[i])], Str("\n"))
    /\ \A f \in Scanned :
           RelPath(f) = modules[Len(modules)] /\ pc # "OSError" =>
               text = DecodeReplace(code_root.files[f])

====
